---- MODULE Spec2Model ----
(***************************************************************************)
(* A model of the courier service (trisacrypto/courier):                   *)
(*   - the API client's retry loop (pkg/api/v1/client.go, APIv1.Do) and    *)
(*     its error aggregation (pkg/api/v1/errors.go, JoinStatusErrors);     *)
(*   - the client's operations and the requests they send (client.go);     *)
(*   - the certificate and password upload handlers (pkg/certs.go);        *)
(*   - the server's life cycle and its availability gate (pkg/server.go,   *)
(*     pkg/status.go);                                                     *)
(*   - the storage backends (pkg/store/local, pkg/store/gcloud over        *)
(*     pkg/secrets).                                                       *)
(* Each component has its own specification over the module's variables:   *)
(* SpecClient, SpecHandler, SpecServer and SpecStore.                      *)
(***************************************************************************)
EXTENDS Integers, Sequences, FiniteSets, TLC

VARIABLES
    \* ---- APIv1 (client.go:276-281) and the locals of one Do call ----
    retries,      \* APIv1.retries
    policy,       \* the backoff.BackOff made by APIv1.backoff() for this call
    pc,           \* position of the Do call: idle / loop / select / wait / done
    attempts,     \* Do's local "attempts"
    errs,         \* Do's local "errs"
    nbo,          \* how many times delay.NextBackOff() has been called
    ctxDone,      \* req.Context() is cancelled
    elapsed,      \* ticks of backoff delay waited since "start"
    retRep,       \* Do's returned response
    retErr,       \* Do's returned error
    \* ---- the client operation in progress (client.go:290-357) ----
    creq,         \* the *http.Request made by NewRequest, with what is left of its body
    sent,         \* the requests handed to http.Client.Do, as each was sent
    statusRet,    \* the Status call: its position, the response, and what it returns
    \* ---- a direct call of JoinStatusErrors (errors.go:68) ----
    joinIn,       \* its arguments, [attempts, delay, errs]
    joinOut,      \* its result
    \* ---- Server.StoreCertificate / StoreCertificatePassword (certs.go) ----
    passwords,    \* the store's passwords, by ID
    certificates, \* the store's certificates, by ID
    hpc,          \* position of the handler: idle / get / decrypt / update / updatepw / done
    hreq,         \* the request being served, [path, req]
    password,     \* StoreCertificate's local "password"
    data,         \* StoreCertificate's local "data"
    hresp,        \* the response, [status, body]
    calls,        \* the storage calls made for the request, in order
    \* ---- Server (server.go): New, Serve, Shutdown and the Available gate ----
    maintenance,  \* Server.conf.Maintenance
    healthy,      \* Server.healthy
    ready,        \* Server.ready
    storeState,   \* Server.store: nil / open / closed
    started,      \* Server.started: zero / set
    sock,         \* the listen socket: none / bound / accepting / closed
    inShutdown,   \* http.Server.Shutdown has been called on Server.srv
    echan,        \* Server.echan, a channel of capacity 1
    servePC,      \* position of Serve: new / sethealthy / listen / launch / wait /
                  \*   returned / bindfailed / failed
    shutPC,       \* position of Shutdown: idle / clear / http / drain / close / send / done
    shutErr,      \* Shutdown's local "err"
    greq,         \* the request in the router's chain, [pc, status, label, ...]
    route,        \* the route of that request: none / status / certs
    usedStore,    \* Server.store as the upload handlers found it: none / nil / open / closed
    \* ---- store.Store: local.Store and gcloud.Store ----
    backend,      \* the backend that is open: none / local / remote
    faults,       \* the local store's disk, or the remote one's API, may fail
    files,        \* the local store's directory: the content of each path
    writer,       \* local.Store's RWMutex: the goroutine that holds it for writing, or 0
    readers,      \* local.Store's RWMutex: the goroutines that hold it for reading
    secrets,      \* the secrets of the versioned-secret API, by name
    procs,        \* the call each goroutine is in, [pc, op, kind, id, bytes, api, ret]
    written       \* by key, the bytes of the last Update* that succeeded

callVars    == <<creq, sent, statusRet>>
clientVars  == <<retries, policy, pc, attempts, errs, nbo, ctxDone, elapsed, retRep, retErr,
                 callVars>>
joinVars    == <<joinIn, joinOut>>
handlerVars == <<passwords, certificates, hpc, hreq, password, data, hresp, calls>>
chainVars   == <<route, usedStore>>
serverVars  == <<maintenance, healthy, ready, storeState, started, sock, inShutdown, echan,
                 servePC, shutPC, shutErr, greq, chainVars>>
storeVars   == <<backend, faults, files, writer, readers, secrets, procs, written>>
vars        == <<clientVars, joinVars, handlerVars, serverVars, storeVars>>

(***************************************************************************)
(* Bounds of the model.                                                    *)
(***************************************************************************)
MaxRetries == 3     \* WithRetries(n) for n in 0..MaxRetries
MaxStop    == 2     \* a limited policy stops after 0..MaxStop delays
MaxErrs    == 4     \* length of the argument list of a direct JoinStatusErrors call
MaxVersions == 3    \* versions the secret API holds, over all secrets

(***************************************************************************)
(* Errors.  An error value is a record; its rendered text (Error()) is a   *)
(* sequence of string pieces, so that two different values can render to   *)
(* the same text, as a StatusError and an errors.New of the same text do.  *)
(***************************************************************************)
\* The nil error.
NilErr == [kind |-> "nil", code |-> 0, err |-> <<>>, text |-> <<>>]

\* net/http's StatusText, on the codes the model uses.
StatusText(code) ==
    CASE code = 200 -> "OK"
      [] code = 204 -> "No Content"
      [] code = 401 -> "Unauthorized"
      [] code = 425 -> "Too Early"
      [] code = 503 -> "Service Unavailable"
      [] code = 507 -> "Insufficient Storage"
      [] OTHER -> "Unknown"

\* The decimal rendering of a status code (fmt's %d).
CodeStr(code) ==
    CASE code = 200 -> "200"
      [] code = 204 -> "204"
      [] code = 401 -> "401"
      [] code = 425 -> "425"
      [] code = 503 -> "503"
      [] code = 507 -> "507"
      [] OTHER -> "0"

\* http.Response.Status: the status line, "503 Service Unavailable".
StatusLine(code) == <<CodeStr(code), " ", StatusText(code)>>

\* errors.go:49-54.  The message is kept as its pieces.
NewStatusError(code, msg) ==
    [kind |-> "status", code |-> code,
     err |-> IF msg = <<>> THEN <<StatusText(code)>> ELSE msg, text |-> <<>>]

\* errors.New / fmt.Errorf: a plain error with the given text.
PlainError(text) == [kind |-> "plain", code |-> 0, err |-> <<>>, text |-> text]

\* context.Canceled, what ctx.Err() returns once the context is cancelled.
CtxErr == PlainError(<<"context canceled">>)

\* The *url.Error http.Client.Do returns for a cancelled request context.
UrlCtxErr == PlainError(<<"Post ", "url", ": ", "context canceled">>)

\* errors.go:61-63 (StatusError.Error) and the Error() of a plain error.
ErrorText(e) ==
    CASE e.kind = "status" -> <<"[", CodeStr(e.code), "]: ">> \o e.err
      [] e.kind = "plain"  -> e.text
      [] OTHER -> <<>>

\* fmt's %d of an attempt count.
NumStr(n) ==
    CASE n = 0 -> "0" [] n = 1 -> "1" [] n = 2 -> "2" [] n = 3 -> "3"
      [] n = 4 -> "4" [] n = 5 -> "5" [] n = 6 -> "6" [] OTHER -> "n"

\* The loop of errors.go:74-86: nil errors are skipped, an error whose text is
\* in "seen" is skipped, any other is appended and its text recorded.
RECURSIVE DedupFrom(_, _, _, _)
DedupFrom(es, i, seen, out) ==
    IF i > Len(es) THEN out
    ELSE IF es[i].kind = "nil" THEN DedupFrom(es, i + 1, seen, out)
    ELSE IF ErrorText(es[i]) \in seen THEN DedupFrom(es, i + 1, seen, out)
    ELSE DedupFrom(es, i + 1, seen \cup {ErrorText(es[i])}, Append(out, es[i]))

\* A deduplication that forgets to record the texts it has seen.
DedupNoSeen(es) == SelectSeq(es, LAMBDA e : e.kind # "nil")

\* errors.go:74-86, from the first error with nothing seen.
Dedup(es) == DedupFrom(es, 1, {}, <<>>)

\* errors.go:98-102.  JoinStatusErrors never assigns Delay: it keeps its zero value.
MultiStatusError(errors, n) ==
    [kind |-> "multi", Errs |-> errors, Attempts |-> n, Delay |-> 0]

\* "case 1" of the switch returning the multi-error instead of its only member.
JoinAlwaysWraps(n, delay, es) ==
    IF Len(Dedup(es)) = 0 THEN NilErr ELSE MultiStatusError(Dedup(es), n)

\* errors.go:68-96.
JoinStatusErrors(n, delay, es) ==
    CASE Len(Dedup(es)) = 0 -> NilErr
      [] Len(Dedup(es)) = 1 -> Dedup(es)[1]
      [] OTHER -> MultiStatusError(Dedup(es), n)

\* Last() returning the first of the kept errors.
LastIsFirst(e) == IF Len(e.Errs) > 0 THEN e.Errs[1] ELSE NilErr

\* errors.go:108-113.
Last(e) == IF Len(e.Errs) > 0 THEN e.Errs[Len(e.Errs)] ELSE NilErr

\* errors.go:104-106 (MultiStatusError.Error); %s of a nil error prints "%!s(<nil>)".
MultiErrorText(e) ==
    <<"after ", NumStr(e.Attempts), " attempts: ">>
        \o (IF Last(e).kind = "nil" THEN <<"%!s(<nil>)">> ELSE ErrorText(Last(e)))

\* Error() of any error value of the model.
Text(e) == IF e.kind = "multi" THEN MultiErrorText(e) ELSE ErrorText(e)

\* errors.go:115-117 (Unwrap), extended to the other results of JoinStatusErrors:
\* the errors a result carries.
Kept(e) ==
    CASE e.kind = "nil"   -> <<>>
      [] e.kind = "multi" -> e.Errs
      [] OTHER -> <<e>>

(***************************************************************************)
(* The retry loop, APIv1.Do (client.go:409-445), and one attempt, APIv1.do *)
(* (client.go:447-479).                                                    *)
(***************************************************************************)

\* The backoff policies a client is built with (options.go:20-35): ZeroBackOff,
\* a constant delay, and a policy that returns backoff.Stop after "limit" delays
\* (backoff.WithMaxRetries, or an exponential backoff past its MaxElapsedTime).
Policies ==
    {[kind |-> "zero", limit |-> 0, dur |-> 0], [kind |-> "constant", limit |-> 0, dur |-> 1]}
        \cup {[kind |-> "limited", limit |-> k, dur |-> 1] : k \in 0..MaxStop}

\* delay.NextBackOff() (client.go:427) on its (n+1)-th call.
NextBackOff(pol, n) ==
    IF pol.kind = "limited" /\ n >= pol.limit
    THEN [stop |-> TRUE, dur |-> 0]
    ELSE [stop |-> FALSE, dur |-> pol.dur]

\* A loop that ignores backoff.Stop.
NeverStop(d) == FALSE

\* client.go:428, dur == backoff.Stop.
IsStop(d) == d.stop

\* A loop that stops one attempt early.
LoopCondStrict(a, r) == a < r

\* client.go:416, the loop condition.
LoopCond(a, r) == a <= r

\* Cancellation that is not recorded among the errors.
OnCtxDoneDropped(es) == es

\* client.go:437.
OnCtxDone(es) == Append(es, CtxErr)

\* The server's answers to one request: a transport failure, or a response with a
\* status code, the "error" of its JSON reply (empty when the body is no Reply),
\* whether its content type is the JSON content type and whether its body decodes.
NoRep == [net |-> TRUE, code |-> 0, replyError |-> <<>>, ctJSON |-> FALSE, bodyOK |-> FALSE]

Responses ==
    {NoRep}
    \cup {[net |-> FALSE, code |-> 204, replyError |-> <<>>, ctJSON |-> FALSE, bodyOK |-> FALSE]}
    \cup {[net |-> FALSE, code |-> 401, replyError |-> <<"unauthorized">>, ctJSON |-> TRUE, bodyOK |-> TRUE]}
    \cup {[net |-> FALSE, code |-> c, replyError |-> <<>>, ctJSON |-> FALSE, bodyOK |-> FALSE] : c \in {503, 507}}

\* The arguments the client's own operations pass to Do (client.go:332, 353).
DoData == FALSE
DoCheckStatus == TRUE

\* client.go:447-479.  The result is [rep, err].
do(resp, hasData, checkStatus) ==
    IF resp.net
    THEN [rep |-> NoRep, err |-> PlainError(<<"Post ", "url", ": ", "connection refused">>)]
    ELSE IF checkStatus /\ (resp.code < 200 \/ resp.code >= 300)
    THEN IF resp.replyError # <<>>
         THEN [rep |-> resp, err |-> NewStatusError(resp.code, resp.replyError)]
         ELSE [rep |-> resp, err |-> NewStatusError(resp.code, StatusLine(resp.code))]
    ELSE IF hasData /\ resp.code >= 200 /\ resp.code < 300 /\ resp.code # 204
    THEN IF ~resp.ctJSON
         THEN [rep |-> resp, err |-> PlainError(<<"unexpected content type: ", "text/plain">>)]
         ELSE IF ~resp.bodyOK
         THEN [rep |-> NoRep, err |-> PlainError(<<"could not deserialize response data: ", "EOF">>)]
         ELSE [rep |-> resp, err |-> NilErr]
    ELSE [rep |-> resp, err |-> NilErr]

\* The return statements of client.go:430, 438 and 444.
Return(n, rep, es) ==
    /\ pc' = "done"
    /\ retRep' = rep
    /\ retErr' = JoinStatusErrors(n, elapsed, es)

\* client.go:423-441, after a failed attempt: record the error, ask the policy,
\* return on Stop, otherwise start the timer and go to the select.
Failure(n, rep, err) ==
    /\ errs' = Append(errs, err)
    /\ nbo' = nbo + 1
    /\ IF IsStop(NextBackOff(policy, nbo))
       THEN Return(n, rep, errs')
       ELSE pc' = "select" /\ retRep' = rep /\ UNCHANGED retErr

\* client.go:373-404, NewRequest: the method, the path below the endpoint, the
\* JSON encoding of the data ("" for nil), and the part of the body not yet read.
NewRequest(method, path, body) ==
    [method |-> method, path |-> path, body |-> body, left |-> body]
NoReq == NewRequest("", "", "")

\* A request as http.Client.Do sends it: with what is left of its body.
Wire(r) == [method |-> r.method, path |-> r.path, body |-> r.left]

\* The requests of the client's operations that call Do (client.go:323-332 and
\* 344-353), and a request without a body.
DoRequests ==
    {NewRequest("POST", "/v1/certs/certA", "certificate"),
     NewRequest("POST", "/v1/certs/certA/pkcs12password", "password"),
     NewRequest("GET", "/", "")}

\* An earlier attempt has read the request's body: req.Body is a bytes.Buffer
\* (client.go:385-392), which is read once.
Drained(r) == r.left # r.body

\* The request after http.Client.Do has written it out.
Consumed(r) == [r EXCEPT !.left = ""]

\* http.Transport, given a request whose body is drained: writing it fails with
\* nothing written, and on a connection that was used before the transport makes
\* a new body with req.GetBody and sends the request again; otherwise the
\* attempt fails.
BodyLengthError ==
    PlainError(<<"Post ", "url", ": ", "http: ContentLength=", "n", " with Body length ", "0">>)

\* A Do that returns the errors of its earlier attempts with a response.
OnSuccessJoined(n, es) == JoinStatusErrors(n, 0, es)

\* client.go:418-421: "Success!", return rep, nil.
OnSuccess(n, es) == NilErr

\* client.go:416-421: one more attempt.  The request is written out as it is, or
\* (rewound) with a new body; the server answers resp.
Attempt(resp, rewound) ==
    /\ pc = "loop" /\ LoopCond(attempts, retries) /\ ~ctxDone
    /\ rewound => Drained(creq)
    /\ (Drained(creq) /\ ~rewound) => resp = NoRep
    /\ attempts' = attempts + 1
    /\ sent' = Append(sent, IF rewound THEN [method |-> creq.method, path |-> creq.path,
                                              body |-> creq.body]
                            ELSE Wire(creq))
    /\ creq' = IF resp.net THEN creq ELSE Consumed(creq)
    /\ LET out == IF Drained(creq) /\ ~rewound
                  THEN [rep |-> NoRep, err |-> BodyLengthError]
                  ELSE do(resp, DoData, DoCheckStatus) IN
         IF out.err.kind = "nil"
         THEN /\ pc' = "done" /\ retRep' = out.rep /\ retErr' = OnSuccess(attempts + 1, errs)
              /\ UNCHANGED <<errs, nbo>>
         ELSE Failure(attempts + 1, out.rep, out.err)
    /\ UNCHANGED <<retries, policy, ctxDone, elapsed, statusRet, joinVars, handlerVars, serverVars, storeVars>>

\* client.go:416-418 with the context already cancelled: s.client.Do fails with
\* the context's error without a response.
AttemptCancelled ==
    /\ pc = "loop" /\ LoopCond(attempts, retries) /\ ctxDone
    /\ attempts' = attempts + 1
    /\ Failure(attempts + 1, NoRep, UrlCtxErr)
    /\ UNCHANGED <<retries, policy, ctxDone, elapsed, callVars, joinVars, handlerVars, serverVars, storeVars>>

\* client.go:444: the loop condition fails.
Exhausted ==
    /\ pc = "loop" /\ ~LoopCond(attempts, retries)
    /\ Return(attempts, retRep, errs)
    /\ UNCHANGED <<retries, policy, attempts, errs, nbo, ctxDone, elapsed, callVars, joinVars, handlerVars, serverVars, storeVars>>

\* The caller cancels the context while Do is not blocked in the select.
Cancel ==
    /\ pc \in {"loop", "select"} /\ ~ctxDone
    /\ ctxDone' = TRUE
    /\ UNCHANGED <<retries, policy, pc, attempts, errs, nbo, elapsed, retRep, retErr, callVars, joinVars, handlerVars, serverVars, storeVars>>

\* client.go:435-438: the select is entered with ctx.Done() ready and takes it.
SelectCtx ==
    /\ pc = "select" /\ ctxDone
    /\ errs' = OnCtxDone(errs)
    /\ Return(attempts, retRep, errs')
    /\ UNCHANGED <<retries, policy, attempts, nbo, ctxDone, elapsed, callVars, joinVars, handlerVars, serverVars, storeVars>>

\* client.go:435-440: the select is entered with the timer already expired and
\* takes it (when ctx.Done() is ready too, Go picks either case).
SelectTimer ==
    /\ pc = "select"
    /\ pc' = "loop"
    /\ elapsed' = elapsed + policy.dur
    /\ UNCHANGED <<retries, policy, attempts, errs, nbo, ctxDone, retRep, retErr, callVars, joinVars, handlerVars, serverVars, storeVars>>

\* client.go:435: no case is ready, Do blocks in the select.
SelectBlock ==
    /\ pc = "select" /\ ~ctxDone
    /\ pc' = "wait"
    /\ UNCHANGED <<retries, policy, attempts, errs, nbo, ctxDone, elapsed, retRep, retErr, callVars, joinVars, handlerVars, serverVars, storeVars>>

\* client.go:439-440: the timer fires first and wakes Do, which continues.
WaitTimer ==
    /\ pc = "wait"
    /\ pc' = "loop"
    /\ elapsed' = elapsed + policy.dur
    /\ UNCHANGED <<retries, policy, attempts, errs, nbo, ctxDone, retRep, retErr, callVars, joinVars, handlerVars, serverVars, storeVars>>

\* client.go:436-438: the context is cancelled first and wakes Do, which returns.
WaitCancel ==
    /\ pc = "wait"
    /\ ctxDone' = TRUE
    /\ errs' = OnCtxDone(errs)
    /\ Return(attempts, retRep, errs')
    /\ UNCHANGED <<retries, policy, attempts, nbo, elapsed, callVars, joinVars, handlerVars, serverVars, storeVars>>

(***************************************************************************)
(* The client's operations (client.go:290-357) and the requests they make  *)
(* (NewRequest, client.go:373-404).                                        *)
(***************************************************************************)

\* The body of a response to GET /v1/status: the JSON of a StatusReply
\* (api.go:17-21) with its status, or something that is no JSON.
StatusBody(label) == [json |-> TRUE, status |-> label]
NotJSON == [json |-> FALSE, status |-> ""]

\* The answers to a Status request: a transport failure, or a response with a
\* status code and a body.
NoStatusRep == [net |-> TRUE, code |-> 0, body |-> NotJSON]
StatusResponses ==
    {NoStatusRep}
    \cup [net : {FALSE}, code : {200, 401, 503, 507},
          body : {StatusBody("ok"), StatusBody("stopping"), NotJSON}]

\* What Status returns: (out *StatusReply, err error); out is nil or the reply.
StatusReturn(out, err) == [out |-> out, err |-> err]
NilReply == NotJSON

\* The Status call: not made, made, or returned with the response it got.
StatusCall(pcv, rep, ret) == [pc |-> pcv, rep |-> rep, ret |-> ret]
NoStatusCall == StatusCall("none", NoStatusRep, StatusReturn(NilReply, NilErr))
StatusCalled == StatusCall("call", NoStatusRep, StatusReturn(NilReply, NilErr))

\* A Status that takes only 200 for an answer.
ToleratedOnlyOK(code) == code = 200

\* client.go:305: the response codes that are no status error.
Tolerated(code) == code = 200 \/ code = 503

\* client.go:299-314, on the answer to the request.
StatusResult(resp) ==
    IF resp.net
    THEN StatusReturn(NilReply, PlainError(<<"Get ", "url", ": ", "connection refused">>))
    ELSE IF ~Tolerated(resp.code)
    THEN StatusReturn(NilReply, NewStatusError(resp.code, StatusLine(resp.code)))
    ELSE IF ~resp.body.json
    THEN StatusReturn(NilReply, PlainError(<<"invalid character">>))
    ELSE StatusReturn(resp.body, NilErr)

\* client.go:290-315, APIv1.Status: one request, handed to the http.Client once.
ClientStatus(resp) ==
    /\ statusRet.pc = "call"
    /\ creq' = NewRequest("GET", "/v1/status", "")
    /\ sent' = Append(sent, Wire(creq'))
    /\ statusRet' = StatusCall("done", resp, StatusResult(resp))
    /\ UNCHANGED <<retries, policy, pc, attempts, errs, nbo, ctxDone, elapsed, retRep, retErr>>
    /\ UNCHANGED <<joinVars, handlerVars, serverVars, storeVars>>

(***************************************************************************)
(* A direct call of JoinStatusErrors, as errors_test.go makes.             *)
(***************************************************************************)

\* The errors a caller can pass: nil, status errors, and plain errors, one of
\* which renders to the same text as a status error.
ErrValues ==
    {NilErr, NewStatusError(401, <<>>), NewStatusError(503, <<>>),
     PlainError(<<"[", "503", "]: ", "Service Unavailable">>)}

\* All sequences over S of length at most n.
SeqsUpTo(S, n) == UNION {[1..k -> S] : k \in 0..n}

\* No direct call is made, and the result of a call not yet made.
NoJoin == [attempts |-> 0, delay |-> 0, errs |-> <<>>, called |-> FALSE]

Pending == [kind |-> "pending", code |-> 0, err |-> <<>>, text |-> <<>>]

\* errors.go:68, called with the arguments joinIn.
JoinCall ==
    /\ joinIn.called /\ joinOut.kind = "pending"
    /\ joinOut' = JoinStatusErrors(joinIn.attempts, joinIn.delay, joinIn.errs)
    /\ UNCHANGED <<joinIn, clientVars, handlerVars, serverVars, storeVars>>

(***************************************************************************)
(* The upload handlers, Server.StoreCertificate and                        *)
(* Server.StoreCertificatePassword (certs.go), over a store.Store.         *)
(***************************************************************************)

\* The IDs of the request paths and the passwords of the model.
IDs == {"certA", "certB"}
Passwords == {"supersecretsquirrel", "wrongpassword"}
NoPassword == ""

\* Certificate bytes: a container encrypted with a password, the decrypted and
\* re-encoded certificate, bytes that are no container, and no bytes.
Encrypted(pw) == [kind |-> "p12", pw |-> pw]
Decoded == [kind |-> "pem", pw |-> NoPassword]
Junk == [kind |-> "junk", pw |-> NoPassword]
NoBytes == [kind |-> "none", pw |-> NoPassword]
Payloads == {Encrypted(pw) : pw \in Passwords} \cup {Decoded, Junk}

\* base64.StdEncoding: the encoding of some bytes, a string that is no base64,
\* and the empty string.
Base64(b) == [enc |-> "b64", of |-> b]
BadBase64 == [enc |-> "raw", of |-> Junk]
EmptyString == [enc |-> "empty", of |-> NoBytes]

\* A decoder that accepts any string.
DecodeAnything(str) == [ok |-> TRUE, data |-> str.of]

\* base64.StdEncoding.DecodeString (certs.go:42): [ok, data].
DecodeString(str) ==
    IF str.enc = "b64" THEN [ok |-> TRUE, data |-> str.of]
    ELSE IF str.enc = "empty" THEN [ok |-> TRUE, data |-> NoBytes]
    ELSE [ok |-> FALSE, data |-> NoBytes]

\* trust.Decrypt (certs.go:62): succeeds on a container encrypted with pw.
Decrypt(d, pw) == d.kind = "p12" /\ d.pw = pw

\* A comparison with == instead of errors.Is.
errorsIsExact(err) == err = "ErrNotFound"

\* errors.Is(err, store.ErrNotFound) (certs.go:51), on the errors of the model:
\* store.ErrNotFound, an error wrapping it, and any other error.
errorsIs(err) == err \in {"ErrNotFound", "WrappedNotFound"}

\* The request bodies.  A body that is no JSON fails to bind; a certificate upload
\* carries no_decrypt and base64_certificate, a password upload the password.
\* (The "id" of the body is never read by the handlers: they use the path's.)
CertRequests ==
    [op : {"cert"}, json : {TRUE}, noDecrypt : BOOLEAN,
     base64 : {Base64(b) : b \in Payloads} \cup {BadBase64, EmptyString},
     password : {NoPassword}]
    \cup [op : {"cert"}, json : {FALSE}, noDecrypt : {FALSE}, base64 : {EmptyString},
          password : {NoPassword}]
PasswordRequests ==
    [op : {"password"}, json : {TRUE}, noDecrypt : {FALSE},
     base64 : {EmptyString}, password : Passwords \cup {NoPassword}]
    \cup [op : {"password"}, json : {FALSE}, noDecrypt : {FALSE}, base64 : {EmptyString},
          password : {NoPassword}]
NoRequest ==
    [op |-> "none", json |-> FALSE, noDecrypt |-> FALSE,
     base64 |-> EmptyString, password |-> NoPassword]

\* store.GetPassword as the handler sees it, [res, pw]: the backend fails
\* (how = "fail"), or reports a missing password with store.ErrNotFound, bare or
\* wrapped (how = "wrap"), or returns the stored password.
GetPassword(pws, id, how) ==
    IF how = "fail" THEN [res |-> "Other", pw |-> NoPassword]
    ELSE IF pws[id] = NoPassword
    THEN [res |-> IF how = "wrap" THEN "WrappedNotFound" ELSE "ErrNotFound", pw |-> NoPassword]
    ELSE [res |-> "ok", pw |-> pws[id]]

\* One storage call in the log of a request.
Call(fn, id, d, pw, res) == [fn |-> fn, id |-> id, data |-> d, pw |-> pw, res |-> res]

\* A response: the status and the "error" of the JSON body ("" for no body).
Response(status, body) == [status |-> status, body |-> body]

\* The handler returns with a response.
Respond(status, body) == hpc' = "done" /\ hresp' = Response(status, body)

\* A handler that decrypts whatever no_decrypt says.
DecryptRequestedAlways(req) == TRUE

\* certs.go:47.
DecryptRequested(req) == ~req.noDecrypt

\* certs.go:24-47: POST /v1/certs/:id arrives; bind, validate and decode it.
StoreCertificate(id, req) ==
    /\ hpc \in {"idle", "done"}
    /\ hreq' = [path |-> id, req |-> req]
    /\ calls' = <<>>
    /\ password' = NoPassword
    /\ IF ~req.json
       THEN Respond(400, "invalid json") /\ data' = NoBytes
       ELSE IF req.base64.enc = "empty"
       THEN Respond(400, "missing certificate in request") /\ data' = NoBytes
       ELSE IF ~DecodeString(req.base64).ok
       THEN Respond(400, "illegal base64 data") /\ data' = NoBytes
       ELSE /\ data' = DecodeString(req.base64).data
            /\ hpc' = IF DecryptRequested(req) THEN "get" ELSE "update"
            /\ hresp' = Response(0, "")
    /\ UNCHANGED <<passwords, certificates, clientVars, joinVars, serverVars, storeVars>>

\* certs.go:51-57: the status for a failed GetPassword.
GetErrorStatus(res) == IF errorsIs(res) THEN 404 ELSE 500

\* certs.go:50-58: s.store.GetPassword(ctx, id).
FetchPassword(how) ==
    /\ hpc = "get"
    /\ LET got == GetPassword(passwords, hreq.path, how) IN
         /\ calls' = Append(calls, Call("GetPassword", hreq.path, NoBytes, got.pw, got.res))
         /\ password' = got.pw
         /\ IF got.res # "ok"
            THEN Respond(GetErrorStatus(got.res),
                         IF errorsIs(got.res)
                         THEN "pkcs12 password not found, unable to decrypt certificate"
                         ELSE "store error")
            ELSE hpc' = "decrypt" /\ UNCHANGED hresp
    /\ UNCHANGED <<passwords, certificates, hreq, data, clientVars, joinVars, serverVars, storeVars>>

\* A handler that goes on to store the bytes as received when decryption fails.
OnDecryptErrorStore(d) == hpc' = "update" /\ data' = d /\ UNCHANGED hresp

\* certs.go:62-65: decryption failed.
OnDecryptError(d) ==
    /\ Respond(409, "failed to decrypt certificate with stored pkcs12 password")
    /\ data' = d

\* A handler that stores the bytes it received instead of the re-encoded ones.
EncodeKeepsInput(d) == d

\* provider.Encode() (certs.go:68): the decrypted certificate, re-encoded.
Encode(d) == Decoded

\* certs.go:60-72: trust.Decrypt and provider.Encode; encoding succeeds or not.
DecryptAndEncode(encodeOK) ==
    /\ hpc = "decrypt"
    /\ IF ~Decrypt(data, password)
       THEN OnDecryptError(data)
       ELSE IF ~encodeOK
       THEN Respond(500, "encode error") /\ UNCHANGED data
       ELSE hpc' = "update" /\ data' = Encode(data) /\ UNCHANGED hresp
    /\ UNCHANGED <<passwords, certificates, hreq, password, calls, clientVars, joinVars, serverVars, storeVars>>

\* A handler that ignores the error of the Update call.
OnUpdateErrorIgnored == Respond(204, "")

\* certs.go:75-78 and 106-109: the Update call returned an error.
OnUpdateError == Respond(500, "store error")

\* certs.go:74-81: s.store.UpdateCertificate(ctx, id, data) succeeds or fails.
UpdateCertificate(ok) ==
    /\ hpc = "update"
    /\ calls' = Append(calls, Call("UpdateCertificate", hreq.path, data, NoPassword,
                                   IF ok THEN "ok" ELSE "Other"))
    /\ certificates' = IF ok THEN [certificates EXCEPT ![hreq.path] = data] ELSE certificates
    /\ IF ok THEN Respond(204, "") ELSE OnUpdateError
    /\ UNCHANGED <<passwords, hreq, password, data, clientVars, joinVars, serverVars, storeVars>>

\* certs.go:92-103: POST /v1/certs/:id/pkcs12password arrives; bind and validate.
StoreCertificatePassword(id, req) ==
    /\ hpc \in {"idle", "done"}
    /\ hreq' = [path |-> id, req |-> req]
    /\ calls' = <<>>
    /\ password' = NoPassword
    /\ data' = NoBytes
    /\ IF ~req.json
       THEN Respond(400, "invalid json")
       ELSE IF req.password = NoPassword
       THEN Respond(400, "missing password in request")
       ELSE hpc' = "updatepw" /\ hresp' = Response(0, "")
    /\ UNCHANGED <<passwords, certificates, clientVars, joinVars, serverVars, storeVars>>

\* certs.go:105-112: s.store.UpdatePassword(ctx, id, password) succeeds or fails.
UpdatePassword(ok) ==
    /\ hpc = "updatepw"
    /\ calls' = Append(calls, Call("UpdatePassword", hreq.path, NoBytes, hreq.req.password,
                                   IF ok THEN "ok" ELSE "Other"))
    /\ passwords' = IF ok THEN [passwords EXCEPT ![hreq.path] = hreq.req.password] ELSE passwords
    /\ IF ok THEN Respond(204, "") ELSE OnUpdateError
    /\ UNCHANGED <<certificates, hreq, password, data, clientVars, joinVars, serverVars, storeVars>>

(***************************************************************************)
(* The server's life cycle, New / Serve / Shutdown (server.go), and the    *)
(* availability gate, Server.Available (status.go), in front of the        *)
(* Status handler.  Serve runs in the main goroutine, Shutdown in the      *)
(* goroutine that waits for the interrupt signal; requests run in the      *)
(* goroutines of the http.Server.                                          *)
(***************************************************************************)

\* status.go:11-14.
serverStatusOK == "ok"
serverStatusStopping == "stopping"

\* version.go:18-33, for a build without GitVersion.
Version == "1.0.0"

\* time.Since(s.started).String() (status.go:23, 39): the time since the server
\* started, or since the zero time when Serve has not set s.started yet.
Uptime(since) == IF since = "set" THEN "sinceStarted" ELSE "sinceZeroTime"

\* api.StatusReply (api.go:17-21) and its HTTP status; "passed" tells whether the
\* handlers below the gate were invoked for the request (c.Next()), and "late"
\* whether the request reached the gate after Shutdown cleared the flag.
StatusReply(pcv, code, label, uptime, version, passed, late) ==
    [pc |-> pcv, status |-> code, label |-> label, uptime |-> uptime,
     version |-> version, passed |-> passed, late |-> late]

NoGateRequest == StatusReply("none", 0, "", "", "", FALSE, FALSE)

\* server.go:133-152: the store New opens, none in maintenance mode.
OpenedStore(m) == IF m THEN "nil" ELSE "open"

\* part_005:24-28.
SetHealthy(status) == healthy' = status

\* part_005:31-35.
SetReady(status) == ready' = status

\* server.go:203-210: Serve is called; it registers the interrupt handler and
\* starts the goroutine that calls Shutdown.
Serve ==
    /\ servePC = "new"
    /\ servePC' = "sethealthy"
    /\ UNCHANGED <<maintenance, healthy, ready, storeState, started, sock, inShutdown,
                   echan, shutPC, shutErr, greq>>
    /\ UNCHANGED <<chainVars, clientVars, joinVars, handlerVars, storeVars>>

\* server.go:212-213.
ServeSetHealthy ==
    /\ servePC = "sethealthy"
    /\ SetHealthy(TRUE)
    /\ servePC' = "listen"
    /\ UNCHANGED <<maintenance, ready, storeState, started, sock, inShutdown,
                   echan, shutPC, shutErr, greq>>
    /\ UNCHANGED <<chainVars, clientVars, joinVars, handlerVars, storeVars>>

\* server.go:215-223: net.Listen binds the address or fails; on success SetURL
\* and s.started.
ServeListen(ok) ==
    /\ servePC = "listen"
    /\ IF ok
       THEN sock' = "bound" /\ started' = "set" /\ servePC' = "launch"
       ELSE servePC' = "bindfailed" /\ UNCHANGED <<sock, started>>
    /\ UNCHANGED <<maintenance, healthy, ready, storeState, inShutdown, echan, shutPC,
                   shutErr, greq>>
    /\ UNCHANGED <<chainVars, clientVars, joinVars, handlerVars, storeVars>>

\* server.go:225-233: go s.srv.Serve(sock) and SetReady(true).  http.Server.Serve
\* accepts connections, or closes the socket and returns ErrServerClosed (which
\* is not sent on echan) when Shutdown has been called on the http.Server.
ServeLaunch ==
    /\ servePC = "launch"
    /\ sock' = IF inShutdown THEN "closed" ELSE "accepting"
    /\ SetReady(TRUE)
    /\ servePC' = "wait"
    /\ UNCHANGED <<maintenance, healthy, storeState, started, inShutdown, echan, shutPC,
                   shutErr, greq>>
    /\ UNCHANGED <<chainVars, clientVars, joinVars, handlerVars, storeVars>>

\* server.go:226-230: s.srv.Serve returns an error other than ErrServerClosed.
AcceptError ==
    /\ sock = "accepting"
    /\ Len(echan) = 0
    /\ sock' = "closed"
    /\ echan' = <<"err">>
    /\ UNCHANGED <<maintenance, healthy, ready, storeState, started, inShutdown, servePC,
                   shutPC, shutErr, greq>>
    /\ UNCHANGED <<chainVars, clientVars, joinVars, handlerVars, storeVars>>

\* server.go:235-239: Serve receives from echan and returns.
ServeReturn ==
    /\ servePC = "wait"
    /\ Len(echan) > 0
    /\ servePC' = IF Head(echan) = "nil" THEN "returned" ELSE "failed"
    /\ echan' = Tail(echan)
    /\ UNCHANGED <<maintenance, healthy, ready, storeState, started, sock, inShutdown,
                   shutPC, shutErr, greq>>
    /\ UNCHANGED <<chainVars, clientVars, joinVars, handlerVars, storeVars>>

\* server.go:207-209 and 243-244: the interrupt arrives, at any time after
\* signal.Notify, and the goroutine calls Shutdown.
Shutdown ==
    /\ servePC # "new"
    /\ shutPC = "idle"
    /\ shutPC' = "clear"
    /\ UNCHANGED <<maintenance, healthy, ready, storeState, started, sock, inShutdown,
                   echan, servePC, shutErr, greq>>
    /\ UNCHANGED <<chainVars, clientVars, joinVars, handlerVars, storeVars>>

\* server.go:246.
ShutdownSetHealthy ==
    /\ shutPC = "clear"
    /\ SetHealthy(FALSE)
    /\ shutPC' = "http"
    /\ UNCHANGED <<maintenance, ready, storeState, started, sock, inShutdown,
                   echan, servePC, shutErr, greq>>
    /\ UNCHANGED <<chainVars, clientVars, joinVars, handlerVars, storeVars>>

\* server.go:247-253: s.srv.Shutdown(ctx) marks the http.Server as shutting down
\* and closes the listener it serves.
ShutdownHTTP ==
    /\ shutPC = "http"
    /\ inShutdown' = TRUE
    /\ sock' = IF sock = "accepting" THEN "closed" ELSE sock
    /\ shutPC' = "drain"
    /\ UNCHANGED <<maintenance, healthy, ready, storeState, started, echan, servePC,
                   shutErr, greq>>
    /\ UNCHANGED <<chainVars, clientVars, joinVars, handlerVars, storeVars>>

\* server.go:249-255: s.srv.Shutdown(ctx) returns nil once no request is being
\* served, or the context's error after 30 seconds.
ShutdownDrain(timedOut) ==
    /\ shutPC = "drain"
    /\ timedOut \/ greq.pc \notin {"gate", "handler"}
    /\ shutErr' = IF timedOut THEN "err" ELSE "nil"
    /\ shutPC' = "close"
    /\ UNCHANGED <<maintenance, healthy, ready, storeState, started, sock, inShutdown,
                   echan, servePC, greq>>
    /\ UNCHANGED <<chainVars, clientVars, joinVars, handlerVars, storeVars>>

\* server.go:257-261: s.store.Close(), which returns nil for both backends
\* (local/store.go:43-45, gcloud/store.go:41-43).
ShutdownClose ==
    /\ shutPC = "close"
    /\ storeState' = IF ~maintenance THEN "closed" ELSE storeState
    /\ shutPC' = "send"
    /\ UNCHANGED <<maintenance, healthy, ready, started, sock, inShutdown, echan, servePC,
                   shutErr, greq>>
    /\ UNCHANGED <<chainVars, clientVars, joinVars, handlerVars, storeVars>>

\* server.go:209 and 263-264: Shutdown returns and its error is sent on echan.
ShutdownSend ==
    /\ shutPC = "send"
    /\ Len(echan) = 0
    /\ echan' = <<shutErr>>
    /\ shutPC' = "done"
    /\ UNCHANGED <<maintenance, healthy, ready, storeState, started, sock, inShutdown,
                   servePC, shutErr, greq>>
    /\ UNCHANGED <<chainVars, clientVars, joinVars, handlerVars, storeVars>>

\* server.go:289-299: the routes below the gate, GET /v1/status and the two
\* uploads, POST /v1/certs/:id and POST /v1/certs/:id/pkcs12password.
Routes == {"status", "certs"}

\* The http.Server accepts a request for a route and starts its chain.
Arrive(r) ==
    /\ sock = "accepting"
    /\ greq.pc \in {"none", "done"}
    /\ greq' = StatusReply("gate", 0, "", "", "", FALSE, FALSE)
    /\ route' = r
    /\ UNCHANGED <<maintenance, healthy, ready, storeState, started, sock, inShutdown,
                   echan, servePC, shutPC, shutErr, usedStore>>
    /\ UNCHANGED <<clientVars, joinVars, handlerVars, storeVars>>

\* A gate that lets every request through.
NeverUnavailable(h) == FALSE

\* status.go:35-36: the gate's test of s.healthy, under the read lock.
Unavailable(h) == ~h

\* status.go:32-50: Server.Available.
Available ==
    /\ greq.pc = "gate"
    /\ LET late == shutPC \notin {"idle", "clear"} IN
         IF Unavailable(healthy)
         THEN greq' = StatusReply("done", 503, serverStatusStopping, Uptime(started),
                                  Version, FALSE, late)
         ELSE greq' = StatusReply("handler", 0, "", "", "", TRUE, late)
    /\ UNCHANGED <<maintenance, healthy, ready, storeState, started, sock, inShutdown,
                   echan, servePC, shutPC, shutErr>>
    /\ UNCHANGED <<chainVars, clientVars, joinVars, handlerVars, storeVars>>

\* status.go:17-27: Server.Status, the handler below the gate.
Status ==
    /\ greq.pc = "handler" /\ route = "status"
    /\ greq' = StatusReply("done", 200, serverStatusOK, Uptime(started), Version,
                           greq.passed, greq.late)
    /\ UNCHANGED <<maintenance, healthy, ready, storeState, started, sock, inShutdown,
                   echan, servePC, shutPC, shutErr>>
    /\ UNCHANGED <<chainVars, clientVars, joinVars, handlerVars, storeVars>>

\* The status of an upload whose storage calls succeed, and of one that panics
\* on a nil s.store, which gin.Recovery (server.go:281) answers.
UploadStatus(st) == IF st = "nil" THEN 500 ELSE 204

\* certs.go:18-113: an upload handler below the gate.  A request that fails
\* validation is answered before the store is touched; otherwise the handler
\* calls s.store, whatever New has left there.
Upload(valid) ==
    /\ greq.pc = "handler" /\ route = "certs"
    /\ usedStore' = IF valid THEN storeState ELSE usedStore
    /\ greq' = StatusReply("done", IF valid THEN UploadStatus(storeState) ELSE 400,
                           "", "", "", greq.passed, greq.late)
    /\ UNCHANGED <<maintenance, healthy, ready, storeState, started, sock, inShutdown,
                   echan, servePC, shutPC, shutErr, route>>
    /\ UNCHANGED <<clientVars, joinVars, handlerVars, storeVars>>

(***************************************************************************)
(* The storage backends behind store.Store: local.Store (local/store.go,   *)
(* one gzip file per secret under a sync.RWMutex) and gcloud.Store         *)
(* (gcloud/store.go) over secrets.GoogleSecrets (secrets/client.go) and a  *)
(* versioned-secret API.  Each goroutine of Procs makes one call at a      *)
(* time on the one backend that is open.                                   *)
(***************************************************************************)

\* store.go:8-11.
PasswordPrefix == "pkcs12"
CertificatePrefix == "certificate"
Prefixes == {PasswordPrefix, CertificatePrefix}

\* local/store.go:16-18.
archiveExt == ".gz"

\* The IDs and the payloads of the calls, and the calling goroutines; a backend
\* whose disk or API may fail is called by one goroutine.
Names == {"a", "b"}
Bytes == {"password", "certificate"}
Procs == {1, 2}
OneCaller == {1}

\* local/store.go:97-100, below the store's directory.
fullPath(prefix, name) == prefix \o "-" \o name \o archiveExt

\* gcloud/store.go:105-108.
fullName(prefix, id) == prefix \o "-" \o id

\* The key of a secret in the backend that is open.
KeyOf(b, prefix, name) == IF b = "local" THEN fullPath(prefix, name) ELSE fullName(prefix, name)
Paths == {fullPath(k, n) : k \in Prefixes, n \in Names}
SecretNames == {fullName(k, n) : k \in Prefixes, n \in Names}

\* The content of a path: no file, or a file that holds data, as a gzip stream or
\* as they are, whole or cut short.
File(exists, gzip, whole, bytes) ==
    [exists |-> exists, gzip |-> gzip, whole |-> whole, data |-> bytes]
NoFile == File(FALSE, FALSE, FALSE, "")

\* os.WriteFile opens its path with O_CREATE|O_TRUNC: an empty file.
Truncated == File(TRUE, FALSE, FALSE, "")

\* The result of a call: the error ("nil" for none) and the bytes.
Result(err, bytes) == [err |-> err, data |-> bytes]
NoResult == Result("none", "")

\* The bytes of a file as os.ReadFile returns them.
FileBytes(f) == IF f.gzip THEN "gzip:" \o f.data ELSE f.data

\* local/store.go:102-115, readFile: the error of os.Open as it is, the error of
\* the gzip reader, or the decompressed bytes.
readFile(f) ==
    IF ~f.exists THEN Result("ENOENT", "")
    ELSE IF ~f.whole THEN Result("io.EOF", "")
    ELSE IF ~f.gzip THEN Result("gzip.ErrHeader", "")
    ELSE Result("nil", f.data)

\* local/store.go:75-83, os.ReadFile in GetCertificate: a missing file is
\* store.ErrNotFound, and the bytes of the file are returned as they are.
ReadCertificate(f) ==
    IF ~f.exists THEN Result("ErrNotFound", "") ELSE Result("nil", FileBytes(f))

\* A write that compresses no payload.
WrittenUncompressed(prefix, bytes) == File(TRUE, FALSE, TRUE, bytes)

\* local/store.go:117-131 and 87-91: what a complete write leaves in the file:
\* writeFile compresses a password, UpdateCertificate writes the bytes as given.
Written(prefix, bytes) ==
    IF prefix = PasswordPrefix THEN File(TRUE, TRUE, TRUE, bytes)
    ELSE File(TRUE, FALSE, TRUE, bytes)

\* A goroutine between calls, and in a call: its position, the call's arguments,
\* the last answer of the secret API to it, and what the call returns.
InCall(pcv, op, kind, id, bytes) ==
    [pc |-> pcv, op |-> op, kind |-> kind, id |-> id, bytes |-> bytes,
     api |-> NoResult, ret |-> NoResult]
IdleProc == InCall("idle", "", "", "", "")
At(p, pcv) == [procs EXCEPT ![p].pc = pcv]
Returning(p, ret) == [procs EXCEPT ![p].pc = "ret", ![p].ret = ret]
Answered(ps, p, api) == [ps EXCEPT ![p].api = api]
ProcKey(p) == KeyOf(backend, procs[p].kind, procs[p].id)

\* The versions held by the API, over all secrets.
RECURSIVE TotalVersions(_, _)
TotalVersions(secs, S) ==
    IF S = {} THEN 0
    ELSE LET n == CHOOSE x \in S : TRUE
         IN  Len(secs[n].versions) + TotalVersions(secs, S \ {n})

\* The goroutines that are in an Update* call.
Updating == {q \in Procs : procs[q].op = "Update"}

\* Get* (bytes = "") or Update* is called on the open backend.  The local
\* backend first takes its lock; the remote one goes to the API.
CallStore(p, op, kind, id, bytes) ==
    /\ backend \in {"local", "remote"}
    /\ procs[p].pc = "idle"
    /\ op = "Get" <=> bytes = ""
    /\ faults => p \in OneCaller
    /\ (backend = "remote" /\ op = "Update")
         => TotalVersions(secrets, SecretNames) + Cardinality(Updating) < MaxVersions
    /\ procs' = [procs EXCEPT ![p] =
                   InCall(IF backend = "local" THEN "lock"
                          ELSE IF op = "Get" THEN "access" ELSE "create",
                          op, kind, id, bytes)]
    /\ UNCHANGED <<backend, faults, files, writer, readers, secrets, written>>
    /\ UNCHANGED <<clientVars, joinVars, handlerVars, serverVars>>

\* sync.RWMutex.RLock returns when no writer holds the lock.
CanRLock(w) == w = 0

\* local/store.go:53 and 72: s.RLock() in GetPassword and GetCertificate.
RLock(p) ==
    /\ backend = "local"
    /\ procs[p].pc = "lock" /\ procs[p].op = "Get"
    /\ CanRLock(writer)
    /\ readers' = readers \cup {p}
    /\ procs' = At(p, "read")
    /\ UNCHANGED <<backend, faults, files, writer, secrets, written>>
    /\ UNCHANGED <<clientVars, joinVars, handlerVars, serverVars>>

\* local/store.go:61 and 88: s.Lock() in UpdatePassword and UpdateCertificate
\* returns when no goroutine holds the lock.
Lock(p) ==
    /\ backend = "local"
    /\ procs[p].pc = "lock" /\ procs[p].op = "Update"
    /\ writer = 0 /\ readers = {}
    /\ writer' = p
    /\ procs' = At(p, "open")
    /\ UNCHANGED <<backend, faults, files, readers, secrets, written>>
    /\ UNCHANGED <<clientVars, joinVars, handlerVars, serverVars>>

\* local/store.go:55 and 76-83: the read of GetPassword (readFile) and of
\* GetCertificate (os.ReadFile).
Load(p) ==
    /\ backend = "local"
    /\ procs[p].pc = "read"
    /\ procs' = Returning(p, IF procs[p].kind = PasswordPrefix
                             THEN readFile(files[ProcKey(p)])
                             ELSE ReadCertificate(files[ProcKey(p)]))
    /\ UNCHANGED <<backend, faults, files, writer, readers, secrets, written>>
    /\ UNCHANGED <<clientVars, joinVars, handlerVars, serverVars>>

\* local/store.go:90 and 130, os.WriteFile: the path is opened, created and
\* truncated, or opening it fails and the call returns the error.
OpenFile(p, ok) ==
    /\ backend = "local"
    /\ procs[p].pc = "open"
    /\ ok \/ faults
    /\ IF ok
       THEN files' = [files EXCEPT ![ProcKey(p)] = Truncated] /\ procs' = At(p, "write")
       ELSE files' = files /\ procs' = Returning(p, Result("EACCES", ""))
    /\ UNCHANGED <<backend, faults, writer, readers, secrets, written>>
    /\ UNCHANGED <<clientVars, joinVars, handlerVars, serverVars>>

\* local/store.go:90 and 130, os.WriteFile: the bytes are written to the opened
\* file, or the write fails part-way and the call returns the error.
WriteFile(p, ok) ==
    /\ backend = "local"
    /\ procs[p].pc = "write"
    /\ ok \/ faults
    /\ IF ok
       THEN /\ files' = [files EXCEPT ![ProcKey(p)] =
                           Written(procs[p].kind, procs[p].bytes)]
            /\ procs' = Returning(p, Result("nil", ""))
       ELSE files' = files /\ procs' = Returning(p, Result("EIO", ""))
    /\ UNCHANGED <<backend, faults, writer, readers, secrets, written>>
    /\ UNCHANGED <<clientVars, joinVars, handlerVars, serverVars>>

\* The secrets of the API: whether the secret exists, and its versions' payloads.
Secret(exists, versions) == [exists |-> exists, versions |-> versions]
NoSecret == Secret(FALSE, <<>>)

\* The failures of an API call that leave the API's state as it was; adding a
\* version also fails for a payload that is too large and for a secret that has
\* been deleted.
ApiFaults == {"context.DeadlineExceeded", "status.Internal", "status.PermissionDenied"}
AddFaults == ApiFaults \cup {"status.InvalidArgument", "status.NotFound"}

\* AccessSecretVersion of ".../versions/latest" (client.go:144-152) by the API.
AccessSecretVersion(sec) ==
    IF sec.exists /\ Len(sec.versions) > 0
    THEN Result("nil", sec.versions[Len(sec.versions)])
    ELSE Result("status.NotFound", "")

\* A client that returns the API's error as it is.
GetLatestVersionRaw(res) == res

\* client.go:152-168, GoogleSecrets.GetLatestVersion on the API's answer.
GetLatestVersion(res) ==
    IF res.err = "nil" THEN res
    ELSE IF res.err = "context.DeadlineExceeded" THEN Result(res.err, "")
    ELSE IF res.err = "status.NotFound" THEN Result("ErrSecretNotFound", "")
    ELSE Result(res.err, "")

\* gcloud/store.go:50-60 and 78-88, on GetLatestVersion's return.
GetSecret(res) ==
    IF res.err = "nil" THEN res
    ELSE IF res.err = "ErrSecretNotFound" THEN Result("ErrNotFound", "")
    ELSE Result(res.err, "")

\* gcloud/store.go:50-60, 78-88: GetPassword and GetCertificate; the API answers
\* or fails.
Access(p, fault) ==
    /\ backend = "remote"
    /\ procs[p].pc = "access"
    /\ fault = "none" \/ faults
    /\ LET api == IF fault = "none" THEN AccessSecretVersion(secrets[ProcKey(p)])
                  ELSE Result(fault, "")
       IN  procs' = Answered(Returning(p, GetSecret(GetLatestVersion(api))), p, api)
    /\ UNCHANGED <<backend, faults, files, writer, readers, secrets, written>>
    /\ UNCHANGED <<clientVars, joinVars, handlerVars, serverVars>>

\* A client for which a secret that exists is an error.
CreateSecretErrorStrict(err) == err

\* client.go:78-94, GoogleSecrets.CreateSecret on the API's error.
CreateSecretError(err) ==
    IF err = "nil" THEN "nil"
    ELSE IF err = "context.DeadlineExceeded" THEN err
    ELSE IF err = "status.AlreadyExists" THEN "nil"
    ELSE err

\* gcloud/store.go:63-68, 91-96: s.client.CreateSecret; the API creates the
\* secret, reports that it exists, or fails.
CreateSecret(p, fault) ==
    /\ backend = "remote"
    /\ procs[p].pc = "create"
    /\ fault = "none" \/ faults
    /\ LET sec == secrets[ProcKey(p)]
           api == IF fault # "none" THEN fault
                  ELSE IF sec.exists THEN "status.AlreadyExists" ELSE "nil"
           err == CreateSecretError(api)
       IN  /\ secrets' = IF api = "nil" THEN [secrets EXCEPT ![ProcKey(p)] = Secret(TRUE, <<>>)]
                         ELSE secrets
           /\ procs' = Answered(IF err = "nil" THEN At(p, "add")
                                 ELSE Returning(p, Result(err, "")), p, Result(api, ""))
    /\ UNCHANGED <<backend, faults, files, writer, readers, written>>
    /\ UNCHANGED <<clientVars, joinVars, handlerVars, serverVars>>

\* client.go:112-138, GoogleSecrets.AddSecretVersion on the API's error.
AddSecretVersionError(err) ==
    IF err = "nil" THEN "nil"
    ELSE IF err = "context.DeadlineExceeded" THEN err
    ELSE IF err = "status.NotFound" THEN "ErrSecretNotFound"
    ELSE IF err = "status.InvalidArgument" THEN "ErrPayloadTooLarge"
    ELSE IF err = "status.PermissionDenied" THEN "ErrPermissionsDenied"
    ELSE err

\* gcloud/store.go:70 and 98: s.client.AddSecretVersion; the API appends the
\* version, or fails.
AddSecretVersion(p, fault) ==
    /\ backend = "remote"
    /\ procs[p].pc = "add"
    /\ fault = "none" \/ faults
    /\ LET sec == secrets[ProcKey(p)]
           api == IF fault # "none" THEN fault
                  ELSE IF sec.exists THEN "nil" ELSE "status.NotFound"
       IN  /\ secrets' = IF api = "nil"
                         THEN [secrets EXCEPT ![ProcKey(p)] =
                                 Secret(TRUE, Append(sec.versions, procs[p].bytes))]
                         ELSE secrets
           /\ written' = IF api = "nil"
                         THEN [written EXCEPT ![ProcKey(p)] = procs[p].bytes]
                         ELSE written
           /\ procs' = Answered(Returning(p, Result(AddSecretVersionError(api), "")),
                                 p, Result(api, ""))
    /\ UNCHANGED <<backend, faults, files, writer, readers>>
    /\ UNCHANGED <<clientVars, joinVars, handlerVars, serverVars>>

\* What has been written under a key: the bytes of the last Update* that returned
\* nil from the local backend, or whose version the API accepted; "" when there
\* is none.
NothingWritten == ""

\* The deferred s.Unlock() / s.RUnlock() (local/store.go:54, 62, 73, 89).
Released(p, w, rs) == <<IF w = p THEN 0 ELSE w, rs \ {p}>>

\* The call returns to its caller; the local backend's deferred unlock runs.
ReturnCall(p) ==
    /\ procs[p].pc = "ret"
    /\ writer' = Released(p, writer, readers)[1]
    /\ readers' = Released(p, writer, readers)[2]
    /\ written' = IF backend = "local" /\ procs[p].op = "Update" /\ procs[p].ret.err = "nil"
                  THEN [written EXCEPT ![ProcKey(p)] = procs[p].bytes]
                  ELSE written
    /\ procs' = [procs EXCEPT ![p] = IdleProc]
    /\ UNCHANGED <<backend, faults, files, secrets>>
    /\ UNCHANGED <<clientVars, joinVars, handlerVars, serverVars>>

(***************************************************************************)
(* Initial states and specifications.                                      *)
(***************************************************************************)

\* No Do call: the client's variables at rest.
ClientIdle ==
    /\ retries = 0 /\ policy = [kind |-> "zero", limit |-> 0, dur |-> 0]
    /\ pc = "idle" /\ attempts = 0 /\ errs = <<>> /\ nbo = 0
    /\ ctxDone = FALSE /\ elapsed = 0 /\ retRep = NoRep /\ retErr = NilErr
    /\ creq = NoReq /\ sent = <<>> /\ statusRet = NoStatusCall

\* client.go:234-273 and 410-414: a client built WithRetries and WithBackoff, at
\* the entry of Do's loop.
ClientDo ==
    /\ retries \in 0..MaxRetries /\ policy \in Policies
    /\ pc = "loop" /\ attempts = 0 /\ errs = <<>> /\ nbo = 0
    /\ ctxDone = FALSE /\ elapsed = 0 /\ retRep = NoRep /\ retErr = NilErr
    /\ creq \in DoRequests /\ sent = <<>> /\ statusRet = NoStatusCall

\* client.go:234-273 and 290: a client built WithRetries and WithBackoff, at the
\* entry of Status.
ClientStatusCall ==
    /\ retries \in 0..MaxRetries /\ policy \in Policies
    /\ pc = "idle" /\ attempts = 0 /\ errs = <<>> /\ nbo = 0
    /\ ctxDone = FALSE /\ elapsed = 0 /\ retRep = NoRep /\ retErr = NilErr
    /\ creq = NoReq /\ sent = <<>> /\ statusRet = StatusCalled

JoinIdle == joinIn = NoJoin /\ joinOut = Pending

\* The arguments of a direct call of JoinStatusErrors.
JoinArgs ==
    /\ joinIn \in [attempts : 0..MaxErrs, delay : {0}, errs : SeqsUpTo(ErrValues, MaxErrs),
                   called : {TRUE}]
    /\ joinOut = Pending

\* No request served: an empty store.
HandlerIdle ==
    /\ passwords = [i \in IDs |-> NoPassword]
    /\ certificates = [i \in IDs |-> NoBytes]
    /\ hpc = "idle"
    /\ hreq = [path |-> "certA", req |-> NoRequest]
    /\ password = NoPassword
    /\ data = NoBytes
    /\ hresp = Response(0, "")
    /\ calls = <<>>

\* The server's variables at rest: built by New, never served.
ServerIdle ==
    /\ maintenance = FALSE /\ healthy = FALSE /\ ready = FALSE
    /\ storeState = OpenedStore(FALSE) /\ started = "zero" /\ sock = "none"
    /\ inShutdown = FALSE /\ echan = <<>> /\ servePC = "new" /\ shutPC = "idle"
    /\ shutErr = "nil" /\ greq = NoGateRequest
    /\ route = "none" /\ usedStore = "none"

\* server.go:118-186: the server New returns, in maintenance mode or not.
ServerNew ==
    /\ maintenance \in BOOLEAN /\ healthy = FALSE /\ ready = FALSE
    /\ storeState = OpenedStore(maintenance) /\ started = "zero" /\ sock = "none"
    /\ inShutdown = FALSE /\ echan = <<>> /\ servePC = "new" /\ shutPC = "idle"
    /\ shutErr = "nil" /\ greq = NoGateRequest
    /\ route = "none" /\ usedStore = "none"


\* No backend is open.
StoreIdle ==
    /\ backend = "none" /\ faults = FALSE
    /\ files = [f \in Paths |-> NoFile]
    /\ writer = 0 /\ readers = {}
    /\ secrets = [n \in SecretNames |-> NoSecret]
    /\ procs = [p \in Procs |-> IdleProc]
    /\ written = [k \in Paths \cup SecretNames |-> NothingWritten]

\* local.Open (local/store.go:20-32) on an empty directory, or gcloud.Open
\* (gcloud/store.go:12-30) on an API that holds no secret; the disk, or the API,
\* may fail or not.
StoreOpen ==
    /\ backend \in {"local", "remote"}
    /\ faults \in BOOLEAN
    /\ files = [f \in Paths |-> NoFile]
    /\ writer = 0 /\ readers = {}
    /\ secrets = [n \in SecretNames |-> NoSecret]
    /\ procs = [p \in Procs |-> IdleProc]
    /\ written = [k \in Paths \cup SecretNames |-> NothingWritten]

\* The components other than the client and the handlers, at rest.
RestIdle == ServerIdle /\ StoreIdle

InitClient ==
    \/ ClientDo /\ JoinIdle /\ HandlerIdle /\ RestIdle
    \/ ClientIdle /\ JoinArgs /\ HandlerIdle /\ RestIdle
    \/ ClientStatusCall /\ JoinIdle /\ HandlerIdle /\ RestIdle

NextClient ==
    \/ \E resp \in Responses, rewound \in BOOLEAN : Attempt(resp, rewound)
    \/ AttemptCancelled
    \/ Exhausted
    \/ Cancel
    \/ SelectCtx
    \/ SelectTimer
    \/ SelectBlock
    \/ WaitTimer
    \/ WaitCancel
    \/ JoinCall
    \/ \E resp \in StatusResponses : ClientStatus(resp)

SpecClient == InitClient /\ [][NextClient]_vars

InitHandler == ClientIdle /\ JoinIdle /\ HandlerIdle /\ RestIdle

NextHandler ==
    \/ \E id \in IDs, req \in CertRequests : StoreCertificate(id, req)
    \/ \E how \in {"ok", "wrap", "fail"} : FetchPassword(how)
    \/ \E encodeOK \in BOOLEAN : DecryptAndEncode(encodeOK)
    \/ \E ok \in BOOLEAN : UpdateCertificate(ok)
    \/ \E id \in IDs, req \in PasswordRequests : StoreCertificatePassword(id, req)
    \/ \E ok \in BOOLEAN : UpdatePassword(ok)

SpecHandler == InitHandler /\ [][NextHandler]_vars

InitServer == ClientIdle /\ JoinIdle /\ HandlerIdle /\ ServerNew /\ StoreIdle

NextServer ==
    \/ Serve
    \/ ServeSetHealthy
    \/ \E ok \in BOOLEAN : ServeListen(ok)
    \/ ServeLaunch
    \/ AcceptError
    \/ ServeReturn
    \/ Shutdown
    \/ ShutdownSetHealthy
    \/ ShutdownHTTP
    \/ \E timedOut \in BOOLEAN : ShutdownDrain(timedOut)
    \/ ShutdownClose
    \/ ShutdownSend
    \/ \E r \in Routes : Arrive(r)
    \/ Available
    \/ Status
    \/ \E valid \in BOOLEAN : Upload(valid)

SpecServer == InitServer /\ [][NextServer]_vars

InitStore == ClientIdle /\ JoinIdle /\ HandlerIdle /\ ServerIdle /\ StoreOpen

NextStore ==
    \/ \E p \in Procs, kind \in Prefixes, id \in Names :
          \/ CallStore(p, "Get", kind, id, "")
          \/ \E bytes \in Bytes : CallStore(p, "Update", kind, id, bytes)
    \/ \E p \in Procs : RLock(p)
    \/ \E p \in Procs : Lock(p)
    \/ \E p \in Procs : Load(p)
    \/ \E p \in Procs, ok \in BOOLEAN : OpenFile(p, ok)
    \/ \E p \in Procs, ok \in BOOLEAN : WriteFile(p, ok)
    \/ \E p \in Procs, fault \in ApiFaults \cup {"none"} : Access(p, fault)
    \/ \E p \in Procs, fault \in ApiFaults \cup {"none"} : CreateSecret(p, fault)
    \/ \E p \in Procs, fault \in AddFaults \cup {"none"} : AddSecretVersion(p, fault)
    \/ \E p \in Procs : ReturnCall(p)

SpecStore == InitStore /\ [][NextStore]_vars

(***************************************************************************)
(* Properties of the client: APIv1.Do and JoinStatusErrors (SpecClient).   *)
(***************************************************************************)

\* The texts of the non-nil errors of a sequence.
TextsOf(es) == {ErrorText(es[i]) : i \in {j \in 1..Len(es) : es[j].kind # "nil"}}

\* The positions at which a text appears for the first time.
FirstIdxs(es) ==
    {i \in 1..Len(es) :
        /\ es[i].kind # "nil"
        /\ \A j \in 1..(i - 1) : es[j].kind = "nil" \/ ErrorText(es[j]) # ErrorText(es[i])}

\* The k-th smallest element of a set of positions.
Nth(F, k) == CHOOSE i \in F : Cardinality({j \in F : j < i}) = k - 1

\* The largest element of a non-empty set of positions.
MaxOf(F) == CHOOSE i \in F : \A j \in F : j <= i

\* The text "after N attempts: " followed by the text of e.
AfterAttempts(n, e) == <<"after ", NumStr(n), " attempts: ">> \o ErrorText(e)

\* A Do call has returned through JoinStatusErrors (client.go:430, 438, 444): on
\* these paths every attempt made has left its error in errs.
DoFailed == pc = "done" /\ Len(errs) >= attempts

\* The direct call of JoinStatusErrors has returned.
Joined == joinIn.called /\ joinOut.kind # "pending"

\* C1: with N retries, a policy that never stops and a context that is never
\* cancelled, a Do call whose attempts all fail makes exactly N+1 attempts and
\* returns an error.
C1_ExactlyNPlusOneAttempts ==
    (pc = "done" /\ ~ctxDone /\ policy.kind # "limited" /\ retErr.kind # "nil")
        => (attempts = retries + 1 /\ Len(errs) = attempts)

C1_Witness ==
    /\ pc = "done" /\ ~ctxDone /\ policy.kind = "constant" /\ retErr.kind # "nil"
    /\ retries >= 1 /\ attempts = retries + 1

\* C2 as stated: whenever the errors carry at least two distinct texts, the
\* result is a MultiStatusError whose message is "after N attempts: E" with E the
\* last error of the sequence.
C2_MessageIsLastError ==
    /\ (Joined /\ Cardinality(TextsOf(joinIn.errs)) >= 2
            /\ \A i \in 1..Len(joinIn.errs) : joinIn.errs[i].kind # "nil")
        => /\ joinOut.kind = "multi"
           /\ Text(joinOut) = AfterAttempts(joinIn.attempts, joinIn.errs[Len(joinIn.errs)])
    /\ (DoFailed /\ Cardinality(TextsOf(errs)) >= 2)
        => /\ retErr.kind = "multi"
           /\ Text(retErr) = AfterAttempts(attempts, errs[Len(errs)])

\* C2 (amended): whenever the errors carry at least two distinct texts, the
\* result is a MultiStatusError whose message is "after N attempts: E" with N the
\* attempt count and E the last error in order of first appearance, that is the
\* error whose text appeared for the first time latest in the sequence.
C2_MessageIsLastNewError ==
    /\ (Joined /\ Cardinality(TextsOf(joinIn.errs)) >= 2)
        => /\ joinOut.kind = "multi"
           /\ Text(joinOut) =
                AfterAttempts(joinIn.attempts, joinIn.errs[MaxOf(FirstIdxs(joinIn.errs))])
    /\ (DoFailed /\ Cardinality(TextsOf(errs)) >= 2)
        => /\ retErr.kind = "multi"
           /\ Text(retErr) = AfterAttempts(attempts, errs[MaxOf(FirstIdxs(errs))])

C2_Witness ==
    /\ DoFailed /\ retErr.kind = "multi" /\ Len(errs) >= 3
    /\ ErrorText(errs[Len(errs)]) # ErrorText(Last(retErr))
    /\ ErrorText(errs[Len(errs)]) = ErrorText(errs[1])

\* The errors "out" carries are the errors of "es" at the positions where a text
\* first appears, in that order, and nothing else.
KeptFirstOccurrences(out, es) ==
    /\ Len(Kept(out)) = Cardinality(FirstIdxs(es))
    /\ \A k \in 1..Len(Kept(out)) : Kept(out)[k] = es[Nth(FirstIdxs(es), k)]
    /\ \A k \in 1..Len(Kept(out)) : Kept(out)[k].kind # "nil"
    /\ TextsOf(Kept(out)) = TextsOf(es)
    /\ \A k, l \in 1..Len(Kept(out)) :
          ErrorText(Kept(out)[k]) = ErrorText(Kept(out)[l]) => k = l

\* C3: JoinStatusErrors keeps exactly one error per distinct text: nil errors
\* are dropped, the first occurrence of each text is kept, in order of first
\* appearance, and every text of the input is in the result.
C3_KeepsFirstOccurrences ==
    /\ Joined => KeptFirstOccurrences(joinOut, joinIn.errs)
    /\ DoFailed => KeptFirstOccurrences(retErr, errs)

C3_Witness ==
    /\ Joined /\ Len(joinIn.errs) = 3 /\ Len(Kept(joinOut)) = 2
    /\ joinIn.errs[1].kind = "nil"
    /\ joinIn.errs[2].kind = "plain" /\ joinIn.errs[3].kind = "status"

\* What JoinStatusErrors returns, by the number of distinct texts: nil for
\* none, the first error with that text itself for one, a MultiStatusError for more.
JoinShape(out, es) ==
    /\ Cardinality(TextsOf(es)) = 0 => out = NilErr
    /\ Cardinality(TextsOf(es)) = 1 => out = es[MaxOf(FirstIdxs(es))]
    /\ Cardinality(TextsOf(es)) >= 2 <=> out.kind = "multi"

\* Every attempt of the Do call failed with one and the same status error.
SameStatusError ==
    /\ attempts >= 1 /\ Len(errs) >= attempts
    /\ \A i \in 1..attempts : errs[i] = errs[1] /\ errs[i].kind = "status"

\* C4 as stated: nil for no surviving error, the error itself for one distinct
\* text, a MultiStatusError only for two or more; and a Do call whose attempts
\* all fail with the same status error returns that StatusError.
C4_SingleErrorUnwrapped ==
    /\ Joined => JoinShape(joinOut, joinIn.errs)
    /\ (pc = "done" /\ SameStatusError) => retErr = errs[1]

\* C4 (amended): the same of JoinStatusErrors; and a Do call whose attempts all
\* fail with the same status error returns that StatusError unless its context
\* was cancelled in a backoff wait, where it returns a MultiStatusError of the
\* status error and the cancellation error.
C4_SingleErrorUnlessCancelled ==
    /\ Joined => JoinShape(joinOut, joinIn.errs)
    /\ DoFailed => JoinShape(retErr, errs)
    /\ (pc = "done" /\ SameStatusError /\ Len(errs) = attempts) => retErr = errs[1]
    /\ (pc = "done" /\ SameStatusError /\ Len(errs) > attempts)
          => retErr.kind = "multi" /\ retErr.Errs = <<errs[1], CtxErr>>

C4_Witness ==
    /\ pc = "done" /\ SameStatusError /\ Len(errs) = attempts /\ attempts >= 2
    /\ retErr.kind = "status"

\* C5: for every policy, when the context is cancelled while Do is blocked in
\* the wait between attempts, Do returns at once with no further attempt, and
\* the cancellation error is among the errors of what it returns; having
\* returned, it attempts nothing more.
C5_CancelInWaitReturns ==
    [][/\ (pc = "wait" /\ ctxDone')
            => /\ pc' = "done" /\ attempts' = attempts
               /\ \E k \in 1..Len(Kept(retErr')) : Kept(retErr')[k] = CtxErr
       /\ pc = "done" => (pc' = "done" /\ attempts' = attempts)]_vars

C5_Witness ==
    /\ pc = "done" /\ ctxDone /\ policy.kind = "zero"
    /\ attempts <= retries /\ Len(errs) = attempts + 1 /\ errs[Len(errs)] = CtxErr
    /\ \E k \in 1..Len(Kept(retErr)) : Kept(retErr)[k] = CtxErr

\* C6: when the policy returns Stop after a failed attempt, Do makes no further
\* attempt and returns the aggregate of the errors collected so far, also when
\* retries remain.
C6_StopEndsRetries ==
    (pc = "done" /\ policy.kind = "limited" /\ nbo > policy.limit)
        => /\ attempts = policy.limit + 1
           /\ Len(errs) = attempts
           /\ retErr.kind # "nil"
           /\ KeptFirstOccurrences(retErr, errs)

C6_Witness ==
    /\ pc = "done" /\ policy.kind = "limited" /\ nbo > policy.limit
    /\ attempts <= retries /\ attempts >= 2 /\ retErr.kind = "multi"

(***************************************************************************)
(* Properties of the upload handlers (SpecHandler).                        *)
(***************************************************************************)

\* The request served is a certificate upload whose body binds.
CertUpload == hreq.req.op = "cert" /\ hreq.req.json

\* The bytes the request's base64_certificate decodes to.
RequestBytes == DecodeString(hreq.req.base64).data

\* The calls of one storage function in the log of the request.
CallsOf(fn) == SelectSeq(calls, LAMBDA c : c.fn = fn)

\* GetPassword was called for the request and returned a password.
GotPassword ==
    CertUpload /\ Len(calls) >= 1 /\ calls[1].fn = "GetPassword" /\ calls[1].res = "ok"

\* The happy path of C7: no no_decrypt, GetPassword returned the stored password
\* P for the path ID, and the payload is a container encrypted with P.
DecryptsWithStoredPassword ==
    /\ hpc = "done" /\ CertUpload /\ ~hreq.req.noDecrypt
    /\ GotPassword /\ calls[1].id = hreq.path /\ calls[1].pw = passwords[hreq.path]
    /\ hreq.req.base64 = Base64(Encrypted(calls[1].pw))

\* C7 as stated, in the runs where re-encoding succeeded: UpdateCertificate is
\* called exactly once with the path ID and the decrypted, re-encoded bytes, and
\* the response is 204 with an empty body.
C7_HappyPathAlways204 ==
    (DecryptsWithStoredPassword /\ hresp.body # "encode error")
        => /\ Len(CallsOf("UpdateCertificate")) = 1
           /\ CallsOf("UpdateCertificate")[1].id = hreq.path
           /\ CallsOf("UpdateCertificate")[1].data = Decoded
           /\ hresp = Response(204, "")

\* C7 (amended): on the happy path, unless re-encoding fails (500, no storage
\* call), UpdateCertificate is called exactly once, with the path ID and the
\* decrypted, re-encoded bytes, not the encrypted ones; the response is 204 with
\* an empty body when that call succeeds and 500 when it fails.
C7_HappyPathStoresDecrypted ==
    DecryptsWithStoredPassword
        => /\ Len(CallsOf("UpdateCertificate")) <= 1
           /\ Len(CallsOf("UpdateCertificate")) = 0
                => hresp = Response(500, "encode error")
           /\ Len(CallsOf("UpdateCertificate")) = 1
                => /\ CallsOf("UpdateCertificate")[1].id = hreq.path
                   /\ CallsOf("UpdateCertificate")[1].data = Decoded
                   /\ CallsOf("UpdateCertificate")[1].data # RequestBytes
                   /\ CallsOf("UpdateCertificate")[1].res = "ok"
                        => hresp = Response(204, "") /\ certificates[hreq.path] = Decoded
                   /\ CallsOf("UpdateCertificate")[1].res # "ok" => hresp.status = 500

C7_Witness ==
    /\ DecryptsWithStoredPassword
    /\ hresp = Response(204, "")
    /\ Len(calls) = 2 /\ calls[2].fn = "UpdateCertificate" /\ calls[2].data = Decoded
    /\ certificates[hreq.path] = Decoded

\* GetPassword returned a password that does not decrypt the uploaded bytes, and
\* trust.Decrypt has been tried.
DecryptFailed ==
    /\ GotPassword /\ ~hreq.req.noDecrypt /\ hpc # "decrypt"
    /\ ~Decrypt(RequestBytes, calls[1].pw)

\* C8: when decrypting the upload with the stored password fails, the response
\* is 409 and UpdateCertificate is never called for the request.
C8_DecryptFailureIs409 ==
    DecryptFailed
        => /\ hpc = "done"
           /\ hresp.status = 409
           /\ Len(CallsOf("UpdateCertificate")) = 0
           /\ Len(calls) = 1

C8_Witness ==
    /\ DecryptFailed /\ hpc = "done" /\ hresp.status = 409
    /\ hreq.req.base64 = Base64(Encrypted("supersecretsquirrel"))
    /\ calls[1].pw = "wrongpassword"
    /\ certificates[hreq.path] = NoBytes

\* C9: when GetPassword fails, the response is 404 for a not-found error and 500
\* for any other, and neither decryption nor UpdateCertificate happens.
C9_GetPasswordErrors ==
    (CertUpload /\ Len(calls) >= 1 /\ calls[1].fn = "GetPassword" /\ calls[1].res # "ok")
        => /\ hpc = "done"
           /\ Len(calls) = 1
           /\ data = RequestBytes
           /\ calls[1].res \in {"ErrNotFound", "WrappedNotFound"} => hresp.status = 404
           /\ calls[1].res = "Other" => hresp.status = 500

C9_Witness ==
    /\ CertUpload /\ hpc = "done" /\ Len(calls) = 1
    /\ calls[1].fn = "GetPassword" /\ calls[1].res = "WrappedNotFound"
    /\ hresp.status = 404

\* C10: with no_decrypt GetPassword is never called, and the UpdateCertificate
\* call carries exactly the bytes the request's base64 decodes to, whatever
\* password is stored for the ID.
C10_NoDecryptStoresAsReceived ==
    (CertUpload /\ hreq.req.noDecrypt)
        => /\ hpc \notin {"get", "decrypt"}
           /\ Len(CallsOf("GetPassword")) = 0
           /\ (hpc = "done" /\ hreq.req.base64.enc = "b64")
                => /\ Len(calls) = 1
                   /\ calls[1].fn = "UpdateCertificate"
                   /\ calls[1].id = hreq.path
                   /\ calls[1].data = RequestBytes
                   /\ calls[1].res = "ok" => certificates[hreq.path] = RequestBytes

C10_Witness ==
    /\ CertUpload /\ hreq.req.noDecrypt /\ hpc = "done"
    /\ passwords[hreq.path] = "supersecretsquirrel"
    /\ hreq.req.base64 = Base64(Encrypted("supersecretsquirrel"))
    /\ hresp = Response(204, "")
    /\ certificates[hreq.path] = Encrypted("supersecretsquirrel")

\* The request served fails validation: a certificate upload whose
\* base64_certificate is empty or is no base64, or a password upload whose
\* password is empty.
FailsValidation ==
    /\ hreq.req.json
    /\ \/ hreq.req.op = "cert"
          /\ (hreq.req.base64 = EmptyString \/ hreq.req.base64 = BadBase64)
       \/ hreq.req.op = "password" /\ hreq.req.password = NoPassword

\* C11: a request that fails validation is answered 400 at once, and the handler
\* makes no storage call for it: no GetPassword, UpdateCertificate or
\* UpdatePassword, and the store is as it was.
C11_ValidationFailureIs400 ==
    FailsValidation
        => /\ hpc = "done"
           /\ hresp.status = 400
           /\ calls = <<>>

C11_Witness ==
    /\ FailsValidation /\ hreq.req.base64 = BadBase64 /\ ~hreq.req.noDecrypt
    /\ passwords[hreq.path] = "supersecretsquirrel"
    /\ hresp = Response(400, "illegal base64 data")
    /\ calls = <<>>

\* The Update calls in the log of the request.
UpdateCalls == SelectSeq(calls, LAMBDA c : c.fn \in {"UpdateCertificate", "UpdatePassword"})

\* C12: an upload is answered 204 only if its Update call, for the path ID (and,
\* for a password upload, with the request's password), returned success; it is
\* answered 500 whenever that call returned an error; and the Update call is made
\* at most once per request.
C12_NoContentOnlyAfterUpdate ==
    /\ Len(UpdateCalls) <= 1
    /\ hresp.status = 204
         => /\ Len(UpdateCalls) = 1
            /\ UpdateCalls[1].res = "ok"
            /\ UpdateCalls[1].id = hreq.path
            /\ UpdateCalls[1].fn =
                 (IF hreq.req.op = "cert" THEN "UpdateCertificate" ELSE "UpdatePassword")
            /\ hreq.req.op = "password"
                 => /\ UpdateCalls[1].pw = hreq.req.password
                    /\ passwords[hreq.path] = hreq.req.password
    /\ (Len(UpdateCalls) = 1 /\ UpdateCalls[1].res # "ok")
         => hpc = "done" /\ hresp.status = 500

C12_Witness ==
    /\ hreq.req.op = "password" /\ hpc = "done"
    /\ Len(UpdateCalls) = 1 /\ UpdateCalls[1].res = "Other"
    /\ hresp.status = 500
    /\ passwords[hreq.path] # hreq.req.password

(***************************************************************************)
(* Properties of the availability gate and the server's life cycle         *)
(* (SpecServer).                                                           *)
(***************************************************************************)

\* The gate has answered the request itself.
GateAnswered == greq.pc = "done" /\ ~greq.passed

\* C13: the gate answers a request 503, with a status, the uptime and the
\* version, and without invoking the handlers below, when the healthy flag is
\* false, and passes the request on to the handler when the flag is true.
C13_GateFollowsHealthy ==
    [][greq.pc = "gate" /\ greq' # greq
         => IF ~healthy
            THEN /\ greq'.pc = "done" /\ greq'.status = 503 /\ ~greq'.passed
                 /\ greq'.label # "" /\ greq'.uptime # "" /\ greq'.version # ""
            ELSE greq'.pc = "handler" /\ greq'.passed /\ greq'.status # 503]_vars

C13_Witness ==
    /\ GateAnswered /\ greq.status = 503 /\ ~healthy
    /\ greq.uptime = Uptime("set") /\ greq.version = Version

\* C14: every 503 of the gate is labelled "maintenance" when the server is
\* configured in maintenance mode, and "stopping" otherwise.
C14_LabelTellsMaintenance ==
    (GateAnswered /\ greq.status = 503)
        => greq.label = (IF maintenance THEN "maintenance" ELSE "stopping")

\* The listener has been bound.
ListenerBound == sock # "none"

\* C15: the healthy flag is never true before the listener is bound, nor when
\* binding the listener has failed.
C15_HealthyOnlyAfterBind ==
    /\ healthy => ListenerBound
    /\ servePC = "bindfailed" => ~healthy

\* Shutdown has cleared the healthy flag.
ShutdownBegun == shutPC \notin {"idle", "clear"}

\* C16: the flag is cleared before the HTTP server is shut down and before the
\* store is closed; once Shutdown has cleared it, it is not true again; and no
\* request that reaches the gate after that is passed on to a handler.
C16_UnavailableFromShutdown ==
    /\ (inShutdown \/ storeState = "closed") => ShutdownBegun
    /\ ShutdownBegun => ~healthy
    /\ greq.late => ~greq.passed

(***************************************************************************)
(* Properties of the storage backends (SpecStore).                         *)
(***************************************************************************)

\* Goroutine p is returning from a Get* call.
GetReturns(p) == procs[p].pc = "ret" /\ procs[p].op = "Get"

\* No Update* has left the key's file cut short.
NeverCutShort(k) == backend = "local" => files[k] # Truncated

\* The API answered the call of p, without a fault of its own.
ApiAnswered(p) == backend = "remote" => procs[p].api.err \in {"nil", "status.NotFound"}

\* C17: on either backend, once an Update* for a kind and an ID has succeeded,
\* and as long as every Update* for them succeeds and the API answers, a Get* for
\* the same kind and ID that reads the backend gets no error and exactly the
\* bytes of the most recent of these Update* calls.
C17_GetReturnsLastUpdate ==
    [][\A p \in Procs :
        (~GetReturns(p) /\ GetReturns(p)' /\ written[ProcKey(p)] # ""
            /\ NeverCutShort(ProcKey(p)) /\ ApiAnswered(p)')
          => procs'[p].ret = Result("nil", written[ProcKey(p)])]_vars

C17_Witness ==
    /\ backend = "local"
    /\ GetReturns(1) /\ procs[1].kind = PasswordPrefix /\ procs[1].id = "a"
    /\ procs[1].ret = Result("nil", "certificate")
    /\ files[fullPath(PasswordPrefix, "a")].gzip
    /\ written[fullPath(CertificatePrefix, "a")] = "password"
    /\ written[fullPath(PasswordPrefix, "b")] = "password"

\* No Update* for the key has returned, or started to write.
NeverWritten(k) == written[k] = "" /\ files[k] = NoFile

\* C18: on the local backend, GetPassword and GetCertificate for an ID that was
\* never written for that kind return an error that matches store.ErrNotFound,
\* whatever was written for the other kind.
C18_NeverWrittenIsNotFound ==
    \A p \in Procs :
        (backend = "local" /\ GetReturns(p) /\ NeverWritten(ProcKey(p)))
          => errorsIs(procs[p].ret.err)

\* C19: on the local backend no call runs while an Update* holds the lock, a
\* goroutine that is in no call holds no lock, and every Get* returns either
\* store.ErrNotFound or the complete bytes of the last completed Update* for its
\* key.
C19_LockedReadsSeeWholeWrites ==
    backend = "local"
      => /\ writer # 0 => readers = {}
         /\ \A p \in Procs :
              /\ procs[p].pc \in {"open", "write"} => writer = p
              /\ procs[p].pc = "read" => p \in readers
              /\ procs[p].pc \in {"idle", "lock"} => writer # p /\ p \notin readers
              /\ GetReturns(p)
                   => \/ errorsIs(procs[p].ret.err)
                      \/ /\ written[ProcKey(p)] # ""
                         /\ procs[p].ret = Result("nil", written[ProcKey(p)])

\* C20: on the remote backend Get* returns store.ErrNotFound when the API reports
\* not-found, any other error of the API as it is, and on success exactly the
\* payload of the version that is the latest when the API answers.
C20_RemoteGetErrors ==
    [][\A p \in Procs :
        (backend = "remote" /\ procs[p].pc = "access" /\ procs'[p].pc = "ret")
          => LET api == procs'[p].api
                 ret == procs'[p].ret
                 sec == secrets[ProcKey(p)]
             IN  /\ api.err = "status.NotFound" => ret = Result("ErrNotFound", "")
                 /\ api.err \notin {"nil", "status.NotFound"} => ret = Result(api.err, "")
                 /\ api.err = "nil"
                      => /\ Len(sec.versions) > 0
                         /\ ret = Result("nil", sec.versions[Len(sec.versions)])]_vars

C20_Witness ==
    /\ backend = "remote" /\ GetReturns(1)
    /\ procs[1].api.err = "context.DeadlineExceeded"
    /\ procs[1].ret = Result("context.DeadlineExceeded", "")
    /\ Len(secrets[ProcKey(1)].versions) = 2

\* The versions of the secret of the call of p.
VersionsOf(p) == secrets[ProcKey(p)].versions

\* C21: a remote Update* adds its version only after create-secret: when the API
\* creates the secret or reports that it exists, Update* goes on to add-version;
\* on any other error of create-secret it returns that error and adds nothing;
\* versions change only by an add-version that the API accepts, which appends
\* the payload of the call and makes Update* return nil.
C21_CreateThenAddVersion ==
    [][backend = "remote" =>
        /\ \A p \in Procs :
              /\ (procs[p].pc = "create" /\ procs'[p].pc # "create")
                   => /\ VersionsOf(p)' = VersionsOf(p)
                      /\ IF procs'[p].api.err \in {"nil", "status.AlreadyExists"}
                         THEN procs'[p].pc = "add" /\ secrets'[ProcKey(p)].exists
                         ELSE /\ procs'[p].pc = "ret"
                              /\ procs'[p].ret.err # "nil"
                              /\ secrets' = secrets
              /\ (procs[p].pc = "add" /\ procs'[p].pc # "add" /\ procs'[p].api.err = "nil")
                   => /\ VersionsOf(p)' = Append(VersionsOf(p), procs[p].bytes)
                      /\ procs'[p].ret = Result("nil", "")
        /\ \A k \in SecretNames :
              secrets'[k].versions # secrets[k].versions
                => \E p \in Procs : procs[p].pc = "add" /\ ProcKey(p) = k]_vars

\* Two concurrent first Update* calls for one secret have both been accepted.
C21_Witness ==
    /\ backend = "remote"
    /\ \A p \in Procs : /\ procs[p].pc = "ret" /\ procs[p].op = "Update"
                         /\ procs[p].ret.err = "nil" /\ procs[p].id = "a"
                         /\ procs[p].kind = PasswordPrefix
    /\ procs[1].bytes # procs[2].bytes
    /\ secrets[fullName(PasswordPrefix, "a")].versions = <<procs[2].bytes, procs[1].bytes>>

\* Goroutine p is returning from a remote Update* call that the API rejected.
UpdateRejected(p) ==
    /\ backend = "remote" /\ procs[p].pc = "ret" /\ procs[p].op = "Update"
    /\ procs[p].api.err # "nil"

\* C22: a remote Update* that the API rejects with invalid-argument returns
\* ErrPayloadTooLarge, one that it rejects with permission-denied returns
\* ErrPermissionsDenied, at create-secret as at add-version, and every other
\* error of the API is returned as it is.
C22_DedicatedErrorsAtEitherStep ==
    \A p \in Procs :
        UpdateRejected(p)
          => LET api == procs[p].api.err
                 err == procs[p].ret.err
             IN  /\ api = "status.InvalidArgument" => err = "ErrPayloadTooLarge"
                 /\ api = "status.PermissionDenied" => err = "ErrPermissionsDenied"
                 /\ api \notin {"status.InvalidArgument", "status.PermissionDenied"}
                      => err = api

(***************************************************************************)
(* Properties of the client's operations (SpecClient).                     *)
(***************************************************************************)

\* Status has returned, after a response arrived.
StatusAnswered == statusRet.pc = "done" /\ ~statusRet.rep.net

\* Status returns a status error that carries the code of the response.
StatusErrorReturned ==
    /\ statusRet.ret.out = NilReply
    /\ statusRet.ret.err = NewStatusError(statusRet.rep.code, StatusLine(statusRet.rep.code))

\* C23, as claimed: Status returns the decoded reply and no error for every 200
\* and every 503 response, and a status error for every other response code.
C23_StatusToleratesOKAndUnavailable ==
    StatusAnswered
      => IF statusRet.rep.code \in {200, 503}
         THEN statusRet.ret.err = NilErr /\ statusRet.rep.body.json
                /\ statusRet.ret.out = statusRet.rep.body
         ELSE StatusErrorReturned

\* C23, amended: Status returns the decoded reply and no error for a 200 and a
\* 503 response whose body decodes as a status reply, the decoding error and no
\* reply when the body of such a response does not decode, and a status error
\* for every other response code.
C23_StatusToleratesDecodable ==
    StatusAnswered
      => IF statusRet.rep.code \in {200, 503}
         THEN IF statusRet.rep.body.json
              THEN statusRet.ret = StatusReturn(statusRet.rep.body, NilErr)
              ELSE /\ statusRet.ret.out = NilReply
                   /\ statusRet.ret.err.kind = "plain"
         ELSE StatusErrorReturned

C23_Witness ==
    /\ StatusAnswered /\ statusRet.rep.code = 503
    /\ statusRet.ret = StatusReturn(StatusBody("stopping"), NilErr)

\* C24: Do asks the backoff policy for a delay, and waits, only while retries
\* remain: the policy is asked at most "retries" times, and Do is never in the
\* select after its last permitted attempt.
C24_NoBackoffAfterFinalAttempt ==
    /\ nbo <= retries
    /\ pc \in {"select", "wait"} => attempts <= retries

\* C25: the multi-error a Do call returns carries the number of attempts Do made
\* and the time elapsed since Do started, which Do passed to JoinStatusErrors.
C25_MultiErrorReportsAttemptsAndDelay ==
    (pc = "done" /\ retErr.kind = "multi")
      => retErr.Attempts = attempts /\ retErr.Delay = elapsed

(***************************************************************************)
(* Further properties of the storage backends (SpecStore).                 *)
(***************************************************************************)

\* C26: on the local backend an Update* that fails leaves the payload stored
\* before it in place: whatever Update* calls have failed since, a Get* returns
\* the bytes of the last Update* that succeeded for its key.
C26_FailedUpdateKeepsOldPayload ==
    \A p \in Procs :
        (backend = "local" /\ GetReturns(p) /\ written[ProcKey(p)] # NothingWritten)
          => procs[p].ret = Result("nil", written[ProcKey(p)])

(***************************************************************************)
(* Further properties of the client (SpecClient).                          *)
(***************************************************************************)

\* The step is an attempt of Do that records no error: it succeeded.
AttemptSucceeds == pc = "loop" /\ attempts' = attempts + 1 /\ errs' = errs

\* C27: an attempt that succeeds makes Do return, with the response of that
\* attempt (a 2xx response) and a nil error whatever errors earlier attempts
\* left; and once Do has returned it makes no attempt and changes no result.
C27_SuccessReturnsAtOnce ==
    [][/\ AttemptSucceeds
            => /\ pc' = "done" /\ retErr' = NilErr
               /\ ~retRep'.net /\ retRep'.code \in 200..299
       /\ pc = "done"
            => /\ pc' = "done" /\ attempts' = attempts /\ sent' = sent
               /\ retRep' = retRep /\ retErr' = retErr]_vars

C27_Witness ==
    /\ pc = "done" /\ retErr = NilErr /\ retRep.code = 204
    /\ attempts = 3 /\ Len(errs) = 2 /\ attempts <= retries

\* Status has returned an error that a retry could cure: a transport error or a
\* status error.
StatusAttemptFailed ==
    /\ statusRet.pc = "done"
    /\ statusRet.rep.net \/ ~Tolerated(statusRet.rep.code)

\* C28: a failed Status attempt is retried as a failed attempt of Do is: under
\* a policy that never stops, Status returns its error only after retries + 1
\* requests.
C28_StatusIsRetried ==
    (StatusAttemptFailed /\ policy.kind # "limited") => Len(sent) = retries + 1

\* C30: every request that one Do call hands to the HTTP client goes out as the
\* first did: same method, same path, same complete body.
C30_EveryAttemptSendsSameRequest ==
    \A i \in 1..Len(sent) : sent[i] = sent[1]

(***************************************************************************)
(* Further properties of the server (SpecServer).                          *)
(***************************************************************************)

\* C29: whenever an upload handler calls the store, Server.store is a backend
\* that has been opened and not closed, and Shutdown has closed the backend only
\* when no upload handler is running.
C29_HandlersFindOpenStore ==
    /\ usedStore \in {"none", "open"}
    /\ storeState = "closed" => ~(greq.pc = "handler" /\ route = "certs")

====
